---- MODULE Spec2Model ----
(***************************************************************************)
(* The static page optimizer: the option merge of lib/utils.js, the CLI    *)
(* front end of bin/cli.js and the StaticPageOptimizer pipeline of         *)
(* index.js (backup copy, the four category loops, the statistics and the  *)
(* result report), over an explicit file system.                           *)
(***************************************************************************)
EXTENDS Integers, Sequences, FiniteSets, TLC

VARIABLES
  \* ---- option merge and CLI (lib/utils.js, bin/cli.js) ----
  vin,          \* the argument of a validateOptions call
  vout,         \* its result
  vpc,          \* "call" before the call, "returned" after
  argv,         \* the command line of a CLI run: which flags are given
  configFile,   \* the file named by --config: [state, json]
  finalOptions, \* the merged options of the CLI run
  cpc,          \* position of the CLI action
  command,      \* the command of the CLI run: optimize (the main command), init, analyze
  analysis,     \* what the analyze command reported
  disk0,        \* the file system when the CLI process started
  ucall,        \* a call of a function of lib/utils.js: its name and arguments
  uret,         \* what that call returned
  \* ---- StaticPageOptimizer (index.js) ----
  userOptions,  \* the argument of new StaticPageOptimizer(options)
  options,      \* this.options
  stats,        \* this.stats
  files,        \* file system: path -> content of every regular file
  dirs,         \* file system: the set of directories
  phase,        \* where optimize() is: idle, backup, html, css, js, images, report, done, rejected
  step,         \* inside a phase: "begin" before its first statement, "loop" inside its loop
  queue,        \* the glob result the current category loop iterates over
  idx,          \* position of the loop in queue
  stack,        \* the copyDirectory activations of createBackup, innermost last
  adapter,      \* the results the external compressors gave so far: <<codec, content>> -> result
  descending,   \* the order in which the file system lists names: collation order or its reverse
  runs,         \* number of optimize() calls made
  thrown,       \* the error optimize() rejected with
  report,       \* what showResults printed in this call
  \* ---- history of the current optimize() call ----
  started,      \* the phases entered
  enumerated,   \* <<category, file>> returned by the globs
  attempted,    \* <<category, file>> the loops began to process
  written,      \* <<category, file>> whose output was written
  acct,         \* for each written file the content written, the sizes passed to updateStats,
                \* the settings its compressor was called with and whether a warning was logged
  failure,      \* the first failure of the call
  atStart,      \* this.stats, the input tree and all files when optimize() was called
  prev          \* input and output tree at the end of the last successful call

cfgVars == <<vin, vout, vpc, argv, configFile, finalOptions, cpc, command, analysis, disk0,
             ucall, uret>>
optVars == <<userOptions, options, stats, files, dirs, phase, step, queue, idx,
             stack, adapter, descending, runs, thrown, report>>
histVars == <<started, enumerated, attempted, written, acct, failure, atStart, prev>>
vars == <<cfgVars, optVars, histVars>>

(***************************************************************************)
(* Bounds of the model.                                                    *)
(***************************************************************************)
\* number of optimize() calls in a behaviour
MaxRuns == 2
\* longest path, in segments, the file system accepts (ENAMETOOLONG beyond)
MaxPathLen == 5
\* largest byte count passed to the size arithmetic of lib/utils.js
MaxSize == 7

(***************************************************************************)
(* JavaScript values.  A value is a pair <<typeof, payload>>; the payload  *)
(* of a primitive is its text, of an object the function from its own     *)
(* keys to values, of an array the sequence of its elements.               *)
(***************************************************************************)
Undef == <<"undefined", "">>
Null == <<"null", "">>
JTrue == <<"boolean", "true">>
JFalse == <<"boolean", "false">>
JBool(b) == IF b THEN JTrue ELSE JFalse
JStr(s) == <<"string", s>>
JNum(s) == <<"number", s>>
JObj(f) == <<"object", f>>
JArr(s) == <<"array", s>>
EmptyObj == [k \in {} |-> Undef]

\* o[k] of JavaScript: undefined for a key the object does not have
Get(o, k) == IF k \in DOMAIN o THEN o[k] ELSE Undef

\* ToBoolean
Truthy(v) ==
  \/ v[1] \in {"object", "array"}
  \/ v = JTrue
  \/ v[1] = "string" /\ v[2] # ""
  \/ v[1] = "number" /\ v[2] \notin {"0", "NaN"}

\* a || b
Or(a, b) == IF Truthy(a) THEN a ELSE b

\* typeof v === 'object' && v !== null && !Array.isArray(v)
IsPlainObject(v) == v[1] = "object"

\* the property name of the i-th element of an array
IndexKey(i) == CASE i = 1 -> "0" [] i = 2 -> "1" [] OTHER -> "2"

\* { ...v }: the own enumerable properties of v: the keys of an object, the
\* indices of an array.  A boolean, number, undefined or null has none.  (A
\* string would spread into its characters; no input drawn here merges an
\* object into a string.)
Spread(v) ==
  IF v[1] = "object" THEN v[2]
  ELSE IF v[1] = "array"
  THEN [k \in {IndexKey(i) : i \in DOMAIN v[2]} |->
          v[2][CHOOSE i \in DOMAIN v[2] : IndexKey(i) = k]]
  ELSE EmptyObj

(***************************************************************************)
(* lib/utils.js: deepMerge and validateOptions.                            *)
(***************************************************************************)
RECURSIVE deepMerge(_, _)
\* target and source are JavaScript values, source a plain object
deepMerge(target, source) ==
  LET result == Spread(target)
      src == source[2]
  IN JObj([key \in DOMAIN result \cup DOMAIN src |->
            IF key \in DOMAIN src
            THEN IF IsPlainObject(src[key])
                 THEN deepMerge(Or(Get(result, key), JObj(EmptyObj)), src[key])
                 ELSE src[key]
            ELSE result[key]])

\* the defaults object of validateOptions
Defaults ==
  [k \in {"inputDir", "outputDir", "html", "css", "js", "images", "backup", "verbose"} |->
     CASE k = "inputDir" -> JStr("./")
       [] k = "outputDir" -> JStr("./dist")
       [] k \in {"html", "css", "js", "images"} -> JTrue
       [] OTHER -> JFalse]

\* validateOptions(options): the merged object (as a key -> value function)
validateOptions(opts) == deepMerge(JObj(Defaults), JObj(opts))[2]

(***************************************************************************)
(* bin/cli.js: the options commander hands to the action, and the merge of *)
(* the config file with them.                                              *)
(***************************************************************************)
Absent == <<"absent", "">>

\* program.option(...) of the main command: the value of each option for a
\* command line.  -i and -o have defaults, a --no-x option is true unless
\* given, a plain boolean flag is undefined unless given.
Commander(av) ==
  [k \in {"input", "output", "html", "css", "js", "images", "backup", "verbose", "config", "dryRun"} |->
     CASE k = "input" -> IF av.input = Absent THEN JStr("./") ELSE av.input
       [] k = "output" -> IF av.output = Absent THEN JStr("./dist") ELSE av.output
       [] k = "html" -> JBool(~av.noHtml)
       [] k = "css" -> JBool(~av.noCss)
       [] k = "js" -> JBool(~av.noJs)
       [] k = "images" -> JBool(~av.noImages)
       [] k = "backup" -> IF av.backup THEN JTrue ELSE Undef
       [] k = "verbose" -> IF av.verbose THEN JTrue ELSE Undef
       [] k = "config" -> IF av.config THEN JStr("optimizer.config.json") ELSE Undef
       [] OTHER -> IF av.dryRun THEN JTrue ELSE Undef]

\* the keys the action copies from the commander options, and their source
CliKeys == {"inputDir", "outputDir", "html", "css", "js", "images", "backup", "verbose"}
CliOptionOf(k) ==
  CASE k = "inputDir" -> "input"
    [] k = "outputDir" -> "output"
    [] OTHER -> k

\* { ...config, inputDir: options.input, ..., verbose: options.verbose }
CliOverlay(config, opts) ==
  [k \in DOMAIN config \cup CliKeys |->
     IF k \in CliKeys THEN opts[CliOptionOf(k)] ELSE config[k]]

\* the config object the action ends up with: {} unless --config names an
\* existing file, then its parsed JSON
LoadedConfig(opts, cf) ==
  IF Truthy(opts["config"]) /\ cf.state = "ok" THEN cf.json ELSE EmptyObj

\* JSON.parse throws on a malformed file
ConfigThrows(opts, cf) == Truthy(opts["config"]) /\ cf.state = "malformed"

MergedCliOptions(av, cf) ==
  validateOptions(CliOverlay(LoadedConfig(Commander(av), cf), Commander(av)))

(***************************************************************************)
(* Paths and the file system.  A path is the sequence of its segments, a   *)
(* segment the pair <<stem, extension>> ("a.html" is <<"a", "html">>, the  *)
(* directory "sub" is <<"sub", "">>).  "./" is the empty path.             *)
(***************************************************************************)
D(name) == <<name, "">>
F(stem, ext) == <<stem, ext>>

\* the directory strings used as inputDir and outputDir
PathOf(v) ==
  CASE v = JStr("./") -> <<>>
    [] v = JStr("./dist") -> <<D("dist")>>
    [] v = JStr("./src") -> <<D("src")>>
    [] v = JStr("./out") -> <<D("out")>>

\* path.join, path.dirname, path.extname (without the dot)
Join(a, b) == a \o b
Dirname(p) == SubSeq(p, 1, Len(p) - 1)
Extname(p) == p[Len(p)][2]

IsPrefix(a, p) == Len(a) <= Len(p) /\ SubSeq(p, 1, Len(a)) = a
Rel(a, p) == SubSeq(p, Len(a) + 1, Len(p))
Ancestors(p) == {SubSeq(p, 1, i) : i \in 0..Len(p)}

\* a file's content is its bytes
Size(content) == Len(content)
NoFiles == [p \in {} |-> <<>>]

\* fs.existsSync
Exists(fs, ds, p) == p \in ds \/ p \in DOMAIN fs

\* fs.mkdirSync(p, {recursive: true}) succeeds unless the path is too long
\* or one of its segments is a regular file
CanMkdir(fs, p) == Len(p) <= MaxPathLen /\ \A a \in Ancestors(p) : a \notin DOMAIN fs
Mkdir(ds, p) == ds \cup Ancestors(p)

\* fs.writeFileSync / fs.copyFileSync can create or overwrite p
CanWrite(ds, p) == Len(p) > 0 /\ Len(p) <= MaxPathLen /\ Dirname(p) \in ds /\ p \notin ds

\* (mutant) the file is opened for appending instead of being truncated
WriteFile_Append(fs, p, content) ==
  [q \in DOMAIN fs \cup {p} |->
     IF q = p THEN (IF p \in DOMAIN fs THEN fs[p] \o content ELSE content) ELSE fs[q]]

WriteFile(fs, p, content) == [q \in DOMAIN fs \cup {p} |-> IF q = p THEN content ELSE fs[q]]

\* the collation order of the names that occur
Collation ==
  <<D("backup"), D("dist"), D("lib"), D("out"), D("src"), D("sub"),
    F("a", "html"), F("a", "png"), F("a", "webp"), F("b", "css"), F("b", "html"),
    F("c", "html"), F("c", "js"), F("e", "css"), F("notes", "txt"), F("x", "gif"),
    F("optimizer.config", "json"), F("x", "webp"), F("b", "htm"), F("m", "mjs")>>
Rank(seg) == CHOOSE i \in 1..Len(Collation) : Collation[i] = seg

RECURSIVE Before(_, _)
\* path a comes before path b, segment by segment
Before(a, b) ==
  IF a = <<>> THEN b # <<>>
  ELSE IF b = <<>> THEN FALSE
  ELSE IF a[1] = b[1] THEN Before(Tail(a), Tail(b))
  ELSE Rank(a[1]) < Rank(b[1])

RECURSIVE Listed(_, _)
\* the paths of S in the order the file system lists them
Listed(S, desc) ==
  IF S = {} THEN <<>>
  ELSE LET first == CHOOSE x \in S : \A y \in S \ {x} :
                      IF desc THEN Before(y, x) ELSE Before(x, y)
       IN <<first>> \o Listed(S \ {first}, desc)

\* fs.readdirSync(d): the names of the entries of d
Readdir(fs, ds, d, desc) ==
  LET names == {q[Len(d) + 1] : q \in {e \in ds \cup DOMAIN fs :
                                         Len(e) = Len(d) + 1 /\ IsPrefix(d, e)}}
      listed == Listed({<<n>> : n \in names}, desc)
  IN [i \in 1..Len(listed) |-> listed[i][1]]

\* getFileSize of lib/utils.js: the size, 0 when stat fails
getFileSize(fs, p) == IF p \in DOMAIN fs THEN Size(fs[p]) ELSE 0

\* getFileModTime of lib/utils.js: the modification time, Date(0) when stat
\* fails; mt gives the modification time of each file
getFileModTime(fs, mt, p) == IF p \in DOMAIN fs THEN mt[p] ELSE 0

\* needsUpdate(inputPath, outputPath) of lib/utils.js
needsUpdate(fs, ds, mt, inputPath, outputPath) ==
  IF ~Exists(fs, ds, outputPath) THEN TRUE
  ELSE getFileModTime(fs, mt, inputPath) > getFileModTime(fs, mt, outputPath)

\* needsOptimization(inputPath, outputPath) of lib/image-optimizer.js: true
\* when there is no output, when a stat throws, or when the output is not
\* smaller than the input
needsOptimization(fs, ds, inputPath, outputPath) ==
  IF ~Exists(fs, ds, outputPath) THEN TRUE
  ELSE IF inputPath \notin DOMAIN fs \/ outputPath \notin DOMAIN fs THEN TRUE
  ELSE Size(fs[outputPath]) >= Size(fs[inputPath])

\* the files below a directory, as a path -> content function
TreeBelow(fs, d) == [p \in {q \in DOMAIN fs : IsPrefix(d, q)} |-> fs[p]]

(***************************************************************************)
(* index.js: the constructor.                                              *)
(***************************************************************************)
CtorKeys == {"inputDir", "outputDir", "html", "css", "js", "images", "backup", "verbose"}

\* this.options = { inputDir: options.inputDir || './', ..., ...options }
Construct(o) ==
  LET base == [k \in CtorKeys |->
                 CASE k = "inputDir" -> Or(Get(o, k), JStr("./"))
                   [] k = "outputDir" -> Or(Get(o, k), JStr("./dist"))
                   [] k = "verbose" -> Or(Get(o, k), JFalse)
                   [] OTHER -> JBool(Get(o, k) # JFalse)]
  IN [k \in CtorKeys \cup DOMAIN o |-> IF k \in DOMAIN o THEN o[k] ELSE base[k]]

\* this.stats of the constructor (timeElapsed, a clock reading, is left out)
ZeroStats == [originalSize |-> 0, optimizedSize |-> 0, filesProcessed |-> 0]

InputDir == PathOf(options["inputDir"])
OutputDir == PathOf(options["outputDir"])
BackupDir == Join(OutputDir, <<D("backup")>>)

(***************************************************************************)
(* optimize(): the order of its phases.                                    *)
(***************************************************************************)
Categories == {"html", "css", "js", "images"}
PhaseOrder == <<"backup", "html", "css", "js", "images">>
PhaseIndex(ph) == CHOOSE i \in 1..Len(PhaseOrder) : PhaseOrder[i] = ph

\* if (this.options.x) await this.processX()
Enabled(ph) == Truthy(Get(options, ph))

\* (mutant) the phases are started together and optimize() goes on with the last
PhaseAfter_Last(i) ==
  LET later == {j \in (i + 1)..Len(PhaseOrder) : Enabled(PhaseOrder[j])}
  IN IF later = {} THEN "report"
     ELSE PhaseOrder[CHOOSE j \in later : \A k \in later : j >= k]

\* the phase optimize() enters after phase number i (0: after the start)
PhaseAfter(i) ==
  LET later == {j \in (i + 1)..Len(PhaseOrder) : Enabled(PhaseOrder[j])}
  IN IF later = {} THEN "report"
     ELSE PhaseOrder[CHOOSE j \in later : \A k \in later : j <= k]

(***************************************************************************)
(* glob and the external compressors.                                      *)
(***************************************************************************)
\* the extensions of the glob pattern of each category loop
Patterns(cat) ==
  CASE cat = "html" -> {"html"}
    [] cat = "css" -> {"css"}
    [] cat = "js" -> {"js"}
    [] cat = "images" -> {"jpg", "jpeg", "png", "gif", "svg", "webp"}

\* the paths relative to cwd that a category's pattern matches
GlobMatch(fs, ds, cwd, cat) ==
  {Rel(cwd, q) : q \in {e \in DOMAIN fs \cup ds :
                          Len(e) > Len(cwd) /\ IsPrefix(cwd, e) /\ Extname(e) \in Patterns(cat)}}

\* glob(pattern, {cwd}): the matches, in listing order
Glob(fs, ds, cwd, cat, desc) == Listed(GlobMatch(fs, ds, cwd, cat), desc)

\* this.defaultOptions of the optimizer of a category (some of its settings)
CompressorDefaults(cat) ==
  CASE cat = "html" -> [k \in {"removeComments", "collapseWhitespace"} |-> JTrue]
    [] cat = "css" -> [k \in {"level"} |-> JNum("2")]
    [] cat = "js" -> [k \in {"compress"} |-> JObj([x \in {"drop_console"} |-> JTrue])]
    [] OTHER -> [k \in {"jpeg"} |-> JObj([x \in {"quality"} |-> JNum("80")])]

\* the key of the options object an optimizer reads its settings from
OptionsKey(cat) ==
  CASE cat = "html" -> "htmlOptions"
    [] cat = "css" -> "cssOptions"
    [] cat = "js" -> "jsOptions"
    [] OTHER -> "imageOptions"

\* { ...a, ...b }
ShallowMerge(a, b) == [k \in DOMAIN a \cup DOMAIN b |-> IF k \in DOMAIN b THEN b[k] ELSE a[k]]

\* mergedOptions = { ...this.defaultOptions, ...options.htmlOptions }: the
\* settings the compressor of a category is called with
MergedOptions(cat, opts) ==
  ShallowMerge(CompressorDefaults(cat), Spread(Get(opts, OptionsKey(cat))))

\* what an external compressor (html-minifier-terser, clean-css, terser,
\* imagemin) can answer: a failure or some content
Fail == [ok |-> FALSE, data |-> <<>>]
AdapterOutputs == {<<0>>, <<1, 1, 1>>}
AdapterResults == {Fail} \cup {[ok |-> TRUE, data |-> d] : d \in AdapterOutputs}

\* a compressor is deterministic: the same codec on the same content gives
\* the result it gave before.  The set of <<result, adapter'>> of one call.
AdapterCall(ad, codec, content) ==
  LET key == <<codec, content>>
  IN IF key \in DOMAIN ad
     THEN {<<ad[key], ad>>}
     ELSE {<<r, [k \in DOMAIN ad \cup {key} |-> IF k = key THEN r ELSE ad[k]]>> : r \in AdapterResults}

\* optimizeHTML / optimizeCSS / optimizeJS (inputPath, options): read the
\* file, run the compressor, return the content or throw
OptimizeText(fs, ad, cat, inputPath) ==
  IF inputPath \notin DOMAIN fs
  THEN {[ok |-> FALSE, data |-> <<>>, adapter |-> ad]}
  ELSE {[ok |-> r[1].ok, data |-> r[1].data, adapter |-> r[2]] :
          r \in AdapterCall(ad, cat, fs[inputPath])}

\* ImageOptimizer.optimize: the compressor of each extension ("" for GIF,
\* which is copied as it is)
ImageCodec(ext) ==
  CASE ext \in {"jpg", "jpeg"} -> "jpeg"
    [] ext = "png" -> "png"
    [] ext = "svg" -> "svg"
    [] ext = "webp" -> "webp"
    [] OTHER -> ""

\* outputPath.replace(/\.[^.]+$/, '.webp')
WebpPath(p) == [p EXCEPT ![Len(p)] = <<p[Len(p)][1], "webp">>]

\* (mutant) generateWebP has no try block: a failure is thrown to the caller
GenerateWebP_Throws(fs, ds, ad, inputPath, outputPath) ==
  {IF r[1].ok /\ CanWrite(ds, WebpPath(outputPath))
   THEN [files |-> WriteFile(fs, WebpPath(outputPath), r[1].data), adapter |-> r[2],
         warned |-> FALSE, threw |-> FALSE]
   ELSE [files |-> fs, adapter |-> r[2], warned |-> FALSE, threw |-> TRUE]
   : r \in AdapterCall(ad, "webp", fs[inputPath])}

\* generateWebP(inputPath, outputPath): the file systems it can leave.  Its
\* try block takes the conversion and the write together and only warns
\* (console.warn) when either fails; the pair answers as one deterministic
\* compressor.  It never throws.
GenerateWebP(fs, ds, ad, inputPath, outputPath) ==
  {IF r[1].ok /\ CanWrite(ds, WebpPath(outputPath))
   THEN [files |-> WriteFile(fs, WebpPath(outputPath), r[1].data), adapter |-> r[2],
         warned |-> FALSE, threw |-> FALSE]
   ELSE [files |-> fs, adapter |-> r[2], warned |-> TRUE, threw |-> FALSE]
   : r \in AdapterCall(ad, "webp", fs[inputPath])}

\* optimizeImages(inputPath, outputPath, options): the outcomes of one call
OptimizeImage(fs, ds, ad, opts, inputPath, outputPath) ==
  LET ext == Extname(inputPath)
      buffers ==
        IF inputPath \notin DOMAIN fs THEN {<<Fail, ad>>}
        ELSE IF ext = "gif" THEN {<<[ok |-> TRUE, data |-> fs[inputPath]], ad>>}
        ELSE IF ImageCodec(ext) = "" THEN {<<Fail, ad>>}
        ELSE AdapterCall(ad, ImageCodec(ext), fs[inputPath])
  IN UNION {
       IF ~b[1].ok
       THEN {[kind |-> "compress", files |-> fs, adapter |-> b[2], data |-> <<>>,
              warned |-> FALSE]}
       ELSE {[kind |-> "write", files |-> fs, adapter |-> b[2], data |-> <<>>,
              warned |-> FALSE]} \cup
            (IF ~CanWrite(ds, outputPath) THEN {}
             ELSE LET fs1 == WriteFile(fs, outputPath, b[1].data)
                  IN IF Truthy(Get(opts, "generateWebP")) /\ ext # "webp"
                     THEN {[kind |-> IF w.threw THEN "webp" ELSE "ok", files |-> w.files,
                            adapter |-> w.adapter, data |-> b[1].data, warned |-> w.warned] :
                             w \in GenerateWebP(fs1, ds, b[2], inputPath, outputPath)}
                     ELSE {[kind |-> "ok", files |-> fs1, adapter |-> b[2], data |-> b[1].data,
                            warned |-> FALSE]})
       : b \in buffers}

(***************************************************************************)
(* The body of the category loops and the statistics.                      *)
(***************************************************************************)
\* (mutant) the output keeps only the file name, not its directories
OutputPath_Flat(file) == Join(OutputDir, <<file[Len(file)]>>)

\* path.join(this.options.outputDir, file)
OutputPath(file) == Join(OutputDir, file)

\* updateStats(originalSize, optimizedSize)
updateStats(st, originalSize, optimizedSize) ==
  [originalSize |-> st.originalSize + originalSize,
   optimizedSize |-> st.optimizedSize + optimizedSize,
   filesProcessed |-> st.filesProcessed + 1]

\* one iteration of the loop of processHTML / processCSS / processJS /
\* processImages on `file`: every way it can end.  kind "ok": the output is
\* written and the sizes are measured; otherwise the statement that threw.
FileOutcomes(cat, file) ==
  LET inputPath == Join(InputDir, file)
      outputPath == OutputPath(file)
      outputDir == Dirname(outputPath)
      missing == ~Exists(files, dirs, outputDir)
      ds1 == IF missing THEN Mkdir(dirs, outputDir) ELSE dirs
      originalSize == getFileSize(files, inputPath)
      Done(k, fs, ad, data, warned) ==
        [kind |-> k, files |-> fs, dirs |-> ds1, adapter |-> ad, data |-> data,
         orig |-> originalSize, opt |-> getFileSize(fs, outputPath),
         settings |-> MergedOptions(cat, options), warned |-> warned]
  IN IF missing /\ ~CanMkdir(files, outputDir)
     THEN {[kind |-> "mkdir", files |-> files, dirs |-> dirs, adapter |-> adapter,
            data |-> <<>>, orig |-> 0, opt |-> 0,
            settings |-> MergedOptions(cat, options), warned |-> FALSE]}
     ELSE IF cat = "images"
     THEN {Done(o.kind, o.files, o.adapter, o.data, o.warned) :
             o \in OptimizeImage(files, ds1, adapter, options, inputPath, outputPath)}
     ELSE UNION {
            IF ~r.ok
            THEN {Done("compress", files, r.adapter, <<>>, FALSE)}
            ELSE {Done("write", files, r.adapter, <<>>, FALSE)} \cup
                 (IF CanWrite(ds1, outputPath)
                  THEN {Done("ok", WriteFile(files, outputPath, r.data), r.adapter, r.data, FALSE)}
                  ELSE {})
            : r \in OptimizeText(files, adapter, cat, inputPath)}

(***************************************************************************)
(* showResults.                                                            *)
(***************************************************************************)
Abs(n) == IF n < 0 THEN -n ELSE n

\* ((num / den) * 100).toFixed(2), in hundredths of a percent, rounded half
\* away from zero (the last-bit error of the double is left out); the
\* division by zero of JavaScript gives NaN or an infinity
Percentage(num, den) ==
  IF den = 0
  THEN [text |-> IF num = 0 THEN "NaN" ELSE IF num > 0 THEN "Infinity" ELSE "-Infinity",
        hundredths |-> 0]
  ELSE [text |-> "number",
        hundredths |-> (IF num < 0 THEN -1 ELSE 1) *
                       ((2 * 10000 * Abs(num) + den) \div (2 * den))]

\* the figures showResults prints
ResultsOf(st) ==
  [shown |-> TRUE,
   filesProcessed |-> st.filesProcessed,
   originalSize |-> st.originalSize,
   optimizedSize |-> st.optimizedSize,
   savedBytes |-> st.originalSize - st.optimizedSize,
   savedPercentage |-> Percentage(st.originalSize - st.optimizedSize, st.originalSize)]

NoReport ==
  [shown |-> FALSE, filesProcessed |-> 0, originalSize |-> 0, optimizedSize |-> 0,
   savedBytes |-> 0, savedPercentage |-> [text |-> "", hundredths |-> 0]]

NoError == [kind |-> "", file |-> <<>>]
NoFailure == [phase |-> "", file |-> <<>>, pos |-> 0, kind |-> ""]
NoPrev == [valid |-> FALSE, input |-> NoFiles, output |-> NoFiles]
NoAnalysis == [shown |-> FALSE, count |-> [c \in {} |-> 0], size |-> [c \in {} |-> 0]]
NoDisk == [files |-> NoFiles, dirs |-> {}]

(***************************************************************************)
(* Size arithmetic of lib/utils.js.                                        *)
(***************************************************************************)
\* formatBytes for sizes below one kilobyte: '0 B' for 0, 'n B' for n > 0,
\* and 'NaN undefined' for n < 0 (Math.log of a negative number is NaN)
formatBytes(bytes) ==
  IF bytes < 0 THEN [text |-> "NaN undefined", value |-> 0]
  ELSE [text |-> "B", value |-> bytes]

\* n.toFixed(4) of num/den, in ten-thousandths
Fixed4(num, den) == (2 * 10000 * num + den) \div (2 * den)

\* the variant of calculateCompressionRatio without the originalSize > 0 tests
calculateCompressionRatio_Unguarded(originalSize, optimizedSize) ==
  LET savedBytes == originalSize - optimizedSize
      savedPercentage == Percentage(savedBytes, originalSize)
  IN [originalSize |-> originalSize,
      optimizedSize |-> optimizedSize,
      savedBytes |-> savedBytes,
      savedPercentage |-> savedPercentage,
      compressionRatio |-> IF originalSize = 0
                           THEN [type |-> "string", tenThousandths |-> 0]
                           ELSE [type |-> "string",
                                 tenThousandths |-> Fixed4(optimizedSize, originalSize)]]

\* calculateCompressionRatio: savedPercentage is parseFloat of the toFixed(2)
\* text, or the number 0; compressionRatio is the toFixed(4) text, or the number 1
calculateCompressionRatio(originalSize, optimizedSize) ==
  LET savedBytes == originalSize - optimizedSize
      savedPercentage == IF originalSize > 0
                         THEN Percentage(savedBytes, originalSize)
                         ELSE [text |-> "number", hundredths |-> 0]
  IN [originalSize |-> originalSize,
      optimizedSize |-> optimizedSize,
      savedBytes |-> savedBytes,
      savedPercentage |-> savedPercentage,
      compressionRatio |-> IF originalSize > 0
                           THEN [type |-> "string",
                                 tenThousandths |-> Fixed4(optimizedSize, originalSize)]
                           ELSE [type |-> "number", tenThousandths |-> 10000]]

\* generateReport: the figures the report text is built from, line by line
generateReport(st) ==
  LET compression == calculateCompressionRatio(st.originalSize, st.optimizedSize)
  IN [filesProcessed |-> st.filesProcessed,
      originalSize |-> formatBytes(st.originalSize),
      optimizedSize |-> formatBytes(st.optimizedSize),
      savedBytes |-> formatBytes(compression.savedBytes),
      savedPercentage |-> compression.savedPercentage,
      compressionRatio |-> compression.compressionRatio]

NoRatio == calculateCompressionRatio(0, 0)
NoCall == [fn |-> "none", target |-> Undef, source |-> Undef,
           originalSize |-> 0, optimizedSize |-> 0]
NoReturn == [done |-> FALSE, merged |-> Undef, ratio |-> NoRatio,
             text |-> generateReport(ZeroStats)]

(***************************************************************************)
(* The inputs of the pipeline: site trees, constructor options, and        *)
(* whether the output directory still holds the files of an earlier run.   *)
(***************************************************************************)
TreeOf(S) == [p \in {x[1] : x \in S} |-> (CHOOSE x \in S : x[1] = p)[2]]

SiteTree ==
  TreeOf({<<<<F("a", "html")>>, <<0, 1>>>>,
          <<<<D("sub"), F("b", "css")>>, <<1>>>>,
          <<<<F("notes", "txt")>>, <<1, 0>>>>})
PagesTree ==
  TreeOf({<<<<F("a", "html")>>, <<0, 1>>>>,
          <<<<F("b", "html")>>, <<1>>>>,
          <<<<F("c", "html")>>, <<1, 0>>>>})
ImagesTree ==
  TreeOf({<<<<F("a", "png")>>, <<0, 1>>>>,
          <<<<F("a", "webp")>>, <<1>>>>,
          <<<<F("x", "gif")>>, <<1, 0>>>>})
\* a site with the older extensions .htm and .mjs
LegacyTree ==
  TreeOf({<<<<F("a", "html")>>, <<0, 1>>>>,
          <<<<F("b", "htm")>>, <<1>>>>,
          <<<<F("m", "mjs")>>, <<1, 0>>>>})
BackupDirTree ==
  TreeOf({<<<<F("a", "html")>>, <<0, 1>>>>,
          <<<<D("backup"), F("a", "html")>>, <<1>>>>,
          <<<<F("c", "js")>>, <<0>>>>})
EmptyFileTree ==
  TreeOf({<<<<F("e", "css")>>, <<>>>>,
          <<<<D("lib"), F("c", "js")>>, <<1, 0>>>>})

SrcOut == [k \in {"inputDir", "outputDir"} |->
             IF k = "inputDir" THEN JStr("./src") ELSE JStr("./out")]
With(o, k, v) == [x \in DOMAIN o \cup {k} |-> IF x = k THEN v ELSE o[x]]

NoFlags ==
  [input |-> Absent, output |-> Absent, noHtml |-> FALSE, noCss |-> FALSE,
   noJs |-> FALSE, noImages |-> FALSE, backup |-> FALSE, verbose |-> FALSE,
   config |-> FALSE, dryRun |-> FALSE]
NoConfigFile == [state |-> "none", json |-> EmptyObj]

\* the options objects the optimizer is constructed with
Plain == With(SrcOut, "backup", JFalse)
WithBackup == With(SrcOut, "backup", JTrue)
Partial == With(With(Plain, "html", JFalse), "images", JObj([k \in {"enabled"} |-> JFalse]))
WithWebP == With(Plain, "generateWebP", JTrue)
Tuned == With(Plain, "html", JObj([k \in {"collapseWhitespace"} |-> JFalse]))
CliDefault == MergedCliOptions(NoFlags, NoConfigFile)
\* the output directory is the input directory
InPlace == With(Plain, "outputDir", JStr("./src"))

\* the runs checked: <<constructor options, site tree>>
Scenarios ==
  { <<Plain, SiteTree>>, <<Plain, PagesTree>>, <<Plain, EmptyFileTree>>, <<Plain, NoFiles>>,
    <<WithBackup, SiteTree>>, <<WithBackup, BackupDirTree>>,
    <<Partial, SiteTree>>, <<WithWebP, ImagesTree>>,
    <<CliDefault, SiteTree>>, <<EmptyObj, SiteTree>>, <<Tuned, SiteTree>>,
    <<Partial, ImagesTree>>, <<InPlace, SiteTree>>,
    <<Plain, LegacyTree>> }

\* what an earlier run left at the output path of a file
StaleContent == <<1, 1>>

InitialFiles(tree, inDir, outDir, stale) ==
  LET ins == {Join(inDir, r) : r \in DOMAIN tree}
      outs == IF stale
              THEN {Join(outDir, r) : r \in {t \in DOMAIN tree :
                      \E c \in Categories : Extname(t) \in Patterns(c)}}
              ELSE {}
  IN [p \in ins \cup outs |-> IF p \in ins THEN tree[Rel(inDir, p)] ELSE StaleContent]

InitialDirs(fs, inDir) ==
  Ancestors(inDir) \cup UNION {Ancestors(Dirname(p)) : p \in DOMAIN fs}

HistInit ==
  /\ started = {} /\ enumerated = {} /\ attempted = {} /\ written = {} /\ acct = {}
  /\ failure = NoFailure
  /\ atStart = [stats |-> ZeroStats, input |-> NoFiles, files |-> NoFiles]
  /\ prev = NoPrev

CfgIdle ==
  /\ vin = EmptyObj /\ vout = EmptyObj /\ vpc = "idle"
  /\ argv = NoFlags /\ configFile = NoConfigFile
  /\ finalOptions = EmptyObj /\ cpc = "idle"
  /\ command = "optimize" /\ analysis = NoAnalysis /\ disk0 = NoDisk
  /\ ucall = NoCall /\ uret = NoReturn

Init ==
  /\ CfgIdle
  /\ \E sc \in Scenarios, stale \in BOOLEAN :
       /\ userOptions = sc[1]
       /\ options = Construct(userOptions)
       /\ files = InitialFiles(sc[2], PathOf(options["inputDir"]), PathOf(options["outputDir"]), stale)
       /\ dirs = InitialDirs(files, PathOf(options["inputDir"]))
  /\ stats = ZeroStats
  /\ descending \in BOOLEAN
  /\ phase = "idle" /\ step = "begin" /\ queue = <<>> /\ idx = 1 /\ stack = <<>>
  /\ adapter = [k \in {} |-> Fail]
  /\ runs = 0 /\ thrown = NoError /\ report = NoReport
  /\ HistInit

(***************************************************************************)
(* The actions of StaticPageOptimizer.                                     *)
(***************************************************************************)
\* (mutant) the catch of optimize() logs the error and does not rethrow
Rejects_Swallow(kind, file, pos) ==
  /\ phase' = "done"
  /\ thrown' = NoError
  /\ failure' = [phase |-> phase, file |-> file, pos |-> pos, kind |-> kind]

\* an exception leaves the phase through its catch (spinner.fail, rethrow)
\* and optimize() through its catch (console.error, rethrow)
Rejects(kind, file, pos) ==
  /\ phase' = "rejected"
  /\ thrown' = [kind |-> kind, file |-> file]
  /\ failure' = [phase |-> phase, file |-> file, pos |-> pos, kind |-> kind]

\* optimize() is called, up to its first phase
Optimize ==
  /\ phase \in {"idle", "done", "rejected"}
  /\ runs < MaxRuns
  /\ runs' = runs + 1
  /\ started' = {} /\ enumerated' = {} /\ attempted' = {} /\ written' = {} /\ acct' = {}
  /\ atStart' = [stats |-> stats, input |-> TreeBelow(files, InputDir), files |-> files]
  /\ report' = NoReport
  /\ step' = "begin" /\ queue' = <<>> /\ idx' = 1 /\ stack' = <<>>
  /\ IF Exists(files, dirs, OutputDir) \/ CanMkdir(files, OutputDir)
     THEN /\ dirs' = IF Exists(files, dirs, OutputDir) THEN dirs ELSE Mkdir(dirs, OutputDir)
          /\ phase' = PhaseAfter(0)
          /\ thrown' = NoError
          /\ failure' = NoFailure
     ELSE /\ dirs' = dirs
          /\ Rejects("mkdir", <<>>, 0)
  /\ UNCHANGED <<cfgVars, userOptions, options, stats, files, adapter, descending, prev>>

\* a new optimizer is constructed with the same options (the next CLI run)
NewOptimizer ==
  /\ phase \in {"done", "rejected"}
  /\ runs < MaxRuns
  /\ options' = Construct(userOptions)
  /\ stats' = ZeroStats
  /\ phase' = "idle"
  /\ step' = "begin" /\ queue' = <<>> /\ idx' = 1 /\ stack' = <<>>
  /\ thrown' = NoError /\ report' = NoReport
  /\ started' = {} /\ enumerated' = {} /\ attempted' = {} /\ written' = {} /\ acct' = {}
  /\ failure' = NoFailure
  /\ atStart' = [stats |-> ZeroStats, input |-> NoFiles, files |-> NoFiles]
  /\ UNCHANGED <<cfgVars, userOptions, files, dirs, adapter, descending, runs, prev>>

\* createBackup up to the readdirSync of the outermost copyDirectory
CreateBackup ==
  /\ phase = "backup" /\ step = "begin"
  /\ started' = started \cup {"backup"}
  /\ IF Exists(files, dirs, BackupDir) \/ CanMkdir(files, BackupDir)
     THEN LET ds1 == IF Exists(files, dirs, BackupDir) THEN dirs ELSE Mkdir(dirs, BackupDir)
          IN /\ dirs' = ds1
             /\ stack' = <<[src |-> InputDir, dest |-> BackupDir, i |-> 1,
                            entries |-> Readdir(files, ds1, InputDir, descending)]>>
             /\ step' = "loop"
             /\ UNCHANGED <<phase, thrown, failure>>
     ELSE /\ Rejects("mkdir", <<>>, 0)
          /\ UNCHANGED <<dirs, stack, step>>
  /\ UNCHANGED <<cfgVars, userOptions, options, stats, files, queue, idx, adapter,
                 descending, runs, report, enumerated, attempted, written, acct, atStart, prev>>

\* (mutant) copyDirectory creates a sub-directory and does not descend into it
CopyEntry_Shallow ==
  /\ phase = "backup" /\ step = "loop" /\ stack # <<>>
  /\ stack[Len(stack)].i <= Len(stack[Len(stack)].entries)
  /\ LET top == stack[Len(stack)]
          name == top.entries[top.i]
          srcPath == Join(top.src, <<name>>)
          destPath == Join(top.dest, <<name>>)
          rest == [stack EXCEPT ![Len(stack)].i = top.i + 1]
     IN IF srcPath \in dirs
        THEN /\ CanMkdir(files, destPath)
             /\ dirs' = Mkdir(dirs, destPath)
             /\ stack' = rest
             /\ UNCHANGED <<files, phase, thrown, failure>>
        ELSE /\ CanWrite(dirs, destPath)
             /\ files' = WriteFile(files, destPath, files[srcPath])
             /\ stack' = rest
             /\ UNCHANGED <<dirs, phase, thrown, failure>>
  /\ UNCHANGED <<cfgVars, userOptions, options, stats, step, queue, idx, adapter,
                 descending, runs, report, started, enumerated, attempted, written, acct,
                 atStart, prev>>

\* one iteration of the loop of copyDirectory, innermost activation: a
\* directory is created and entered, a file is copied
CopyEntry ==
  /\ phase = "backup" /\ step = "loop" /\ stack # <<>>
  /\ stack[Len(stack)].i <= Len(stack[Len(stack)].entries)
  /\ LET top == stack[Len(stack)]
          name == top.entries[top.i]
          srcPath == Join(top.src, <<name>>)
          destPath == Join(top.dest, <<name>>)
          rest == [stack EXCEPT ![Len(stack)].i = top.i + 1]
     IN      IF srcPath \in dirs
             THEN IF CanMkdir(files, destPath)
                  THEN /\ dirs' = Mkdir(dirs, destPath)
                       /\ stack' = Append(rest, [src |-> srcPath, dest |-> destPath, i |-> 1,
                                                 entries |-> Readdir(files, dirs', srcPath, descending)])
                       /\ UNCHANGED <<files, phase, thrown, failure>>
                  ELSE /\ Rejects("mkdir", Rel(InputDir, srcPath), 0)
                       /\ UNCHANGED <<files, dirs, stack>>
             ELSE \E ioOk \in BOOLEAN :
                    IF ioOk /\ CanWrite(dirs, destPath)
                    THEN /\ files' = WriteFile(files, destPath, files[srcPath])
                         /\ stack' = rest
                         /\ UNCHANGED <<dirs, phase, thrown, failure>>
                    ELSE /\ Rejects("copy", Rel(InputDir, srcPath), 0)
                         /\ UNCHANGED <<files, dirs, stack>>
  /\ UNCHANGED <<cfgVars, userOptions, options, stats, step, queue, idx, adapter,
                 descending, runs, report, started, enumerated, attempted, written, acct,
                 atStart, prev>>

\* a copyDirectory activation has gone through its entries and returns; the
\* outermost one ends createBackup
CopyReturn ==
  /\ phase = "backup" /\ step = "loop" /\ stack # <<>>
  /\ stack[Len(stack)].i > Len(stack[Len(stack)].entries)
  /\ stack' = SubSeq(stack, 1, Len(stack) - 1)
  /\ IF Len(stack) = 1
     THEN phase' = PhaseAfter(PhaseIndex("backup")) /\ step' = "begin"
     ELSE UNCHANGED <<phase, step>>
  /\ UNCHANGED <<cfgVars, userOptions, options, stats, files, dirs, queue, idx, adapter,
                 descending, runs, thrown, report, histVars>>

\* (mutant) the loop takes only the files whose output needs optimization
Enumerate_SkipFresh ==
  /\ phase \in Categories /\ step = "begin"
  /\ queue' = SelectSeq(Glob(files, dirs, InputDir, phase, descending),
                        LAMBDA f : needsOptimization(files, dirs, Join(InputDir, f), OutputPath(f)))
  /\ enumerated' = enumerated \cup
                      {<<phase, f>> : f \in GlobMatch(files, dirs, InputDir, phase)}
  /\ idx' = 1
  /\ step' = "loop"
  /\ started' = started \cup {phase}
  /\ UNCHANGED <<cfgVars, userOptions, options, stats, files, dirs, phase, stack, adapter,
                 descending, runs, thrown, report, attempted, written, acct, failure, atStart,
                 prev>>

\* processX up to its glob
Enumerate ==
  /\ phase \in Categories /\ step = "begin"
  /\ queue' = Glob(files, dirs, InputDir, phase, descending)
  /\ enumerated' = enumerated \cup {<<phase, queue'[i]>> : i \in 1..Len(queue')}
  /\ idx' = 1
  /\ step' = "loop"
  /\ started' = started \cup {phase}
  /\ UNCHANGED <<cfgVars, userOptions, options, stats, files, dirs, phase, stack, adapter,
                 descending, runs, thrown, report, attempted, written, acct, failure, atStart,
                 prev>>

\* (mutant) a file that fails is skipped and the loop goes on
ProcessFile_KeepGoing ==
  /\ phase \in Categories /\ step = "loop" /\ idx <= Len(queue)
  /\ LET file == queue[idx]
     IN /\ attempted' = attempted \cup {<<phase, file>>}
        /\ \E o \in FileOutcomes(phase, file) :
             /\ files' = o.files
             /\ dirs' = o.dirs
             /\ adapter' = o.adapter
             /\ idx' = idx + 1
             /\ IF o.kind = "ok"
                THEN /\ stats' = updateStats(stats, o.orig, o.opt)
                     /\ written' = written \cup {<<phase, file>>}
                     /\ acct' = acct \cup {[cat |-> phase, file |-> file, data |-> o.data,
                                           orig |-> o.orig, opt |-> o.opt,
                                           settings |-> o.settings, warned |-> o.warned]}
                     /\ UNCHANGED failure
                ELSE /\ failure' = IF failure = NoFailure
                                   THEN [phase |-> phase, file |-> file, pos |-> idx,
                                         kind |-> o.kind]
                                   ELSE failure
                     /\ UNCHANGED <<stats, written, acct>>
  /\ UNCHANGED <<cfgVars, userOptions, options, phase, step, queue, stack, descending, runs,
                 report, thrown, started, enumerated, atStart, prev>>

\* one iteration of the loop of processX
ProcessFile ==
  /\ phase \in Categories /\ step = "loop" /\ idx <= Len(queue)
  /\ LET file == queue[idx]
     IN /\ attempted' = attempted \cup {<<phase, file>>}
        /\ \E o \in FileOutcomes(phase, file) :
             /\ files' = o.files
             /\ dirs' = o.dirs
             /\ adapter' = o.adapter
             /\ IF o.kind = "ok"
                THEN /\ stats' = updateStats(stats, o.orig, o.opt)
                     /\ idx' = idx + 1
                     /\ written' = written \cup {<<phase, file>>}
                     /\ acct' = acct \cup {[cat |-> phase, file |-> file, data |-> o.data,
                                           orig |-> o.orig, opt |-> o.opt,
                                           settings |-> o.settings, warned |-> o.warned]}
                     /\ UNCHANGED <<phase, thrown, failure>>
                ELSE /\ Rejects(o.kind, file, idx)
                     /\ UNCHANGED <<stats, idx, written, acct>>
  /\ UNCHANGED <<cfgVars, userOptions, options, step, queue, stack, descending, runs, report,
                 started, enumerated, atStart, prev>>

\* the loop of processX is over: spinner.succeed, back in optimize()
FinishCategory ==
  /\ phase \in Categories /\ step = "loop" /\ idx > Len(queue)
  /\ phase' = PhaseAfter(PhaseIndex(phase))
  /\ step' = "begin"
  /\ UNCHANGED <<cfgVars, userOptions, options, stats, files, dirs, queue, idx, stack,
                 adapter, descending, runs, thrown, report, histVars>>

\* showResults, and optimize() resolves
ShowResults ==
  /\ phase = "report"
  /\ report' = ResultsOf(stats)
  /\ phase' = "done"
  /\ prev' = [valid |-> TRUE, input |-> atStart.input, output |-> TreeBelow(files, OutputDir)]
  /\ UNCHANGED <<cfgVars, userOptions, options, stats, files, dirs, step, queue, idx, stack,
                 adapter, descending, runs, thrown, started, enumerated, attempted, written,
                 acct, failure, atStart>>

Next ==
  \/ Optimize
  \/ NewOptimizer
  \/ CreateBackup
  \/ CopyEntry
  \/ CopyReturn
  \/ Enumerate
  \/ ProcessFile
  \/ FinishCategory
  \/ ShowResults

Spec == Init /\ [][Next]_vars

TypeOK == phase \in {"idle", "backup", "html", "css", "js", "images", "report", "done", "rejected"}

(***************************************************************************)
(* The option merge and the CLI merge on drawn inputs.                     *)
(***************************************************************************)
\* the values drawn for each key of a validateOptions argument
ValidateChoices ==
  [k \in {"inputDir", "css", "backup", "verbose", "plugins"} |->
     CASE k = "inputDir" -> {Absent, JStr("./src")}
       [] k = "css" -> {Absent, JFalse,
                        JObj([x \in {"level"} |-> JNum("1")]),
                        JObj([x \in {"enabled", "level"} |->
                                IF x = "enabled" THEN JFalse ELSE JNum("2")])}
       [] k = "plugins" -> {Absent, JArr(<<JStr("x")>>)}
       [] OTHER -> {Absent, Undef, JTrue}]

\* the object that has the keys of f drawn with a value
Supplied(f) == [k \in {x \in DOMAIN f : f[x] # Absent} |-> f[k]]

ValidateInputs ==
  {Supplied(f) : f \in {g \in [DOMAIN ValidateChoices -> UNION {ValidateChoices[k] : k \in DOMAIN ValidateChoices}] :
                          \A k \in DOMAIN ValidateChoices : g[k] \in ValidateChoices[k]}}

\* the config files drawn
ConfigJsons ==
  { EmptyObj,
    SrcOut,
    [k \in {"html", "css", "js", "images", "backup", "verbose"} |->
       IF k \in {"backup", "verbose"} THEN JTrue ELSE JFalse],
    [k \in {"html", "css", "backup", "generateWebP"} |->
       CASE k = "html" -> JObj([x \in {"enabled"} |-> JFalse])
         [] k = "css" -> JObj([x \in {"enabled", "level"} |->
                                 IF x = "enabled" THEN JTrue ELSE JNum("2")])
         [] k = "backup" -> JFalse
         [] OTHER -> JTrue] }

ConfigFiles ==
  {NoConfigFile, [state |-> "missing", json |-> EmptyObj], [state |-> "malformed", json |-> EmptyObj]}
  \cup {[state |-> "ok", json |-> j] : j \in ConfigJsons}

CommandLines(cf) ==
  [input : {Absent, JStr("./src")}, output : {Absent, JStr("./out")},
   noHtml : BOOLEAN, noCss : BOOLEAN, noJs : BOOLEAN, noImages : BOOLEAN,
   backup : BOOLEAN, verbose : BOOLEAN, config : {cf.state # "none"}, dryRun : BOOLEAN]

(***************************************************************************)
(* Calls of the functions of lib/utils.js with drawn arguments.            *)
(***************************************************************************)
\* a target with a nested settings object, an array, primitives and null
MergeTarget ==
  JObj("inputDir" :> JStr("./") @@ "html" :> JTrue @@ "name" :> Null
       @@ "plugins" :> JArr(<<JStr("a"), JStr("b")>>)
       @@ "cssOptions" :> JObj("level" :> JNum("2")
                               @@ "format" :> JObj("indent" :> JNum("2"))))

MergeTargets == {MergeTarget, JObj(EmptyObj), JObj(Defaults)}

MergeSources ==
  { JObj(EmptyObj),
    JObj("cssOptions" :> JObj("level" :> JNum("1"))),
    JObj("cssOptions" :> JObj("format" :> JObj("breaks" :> JTrue))),
    JObj("plugins" :> JArr(<<JStr("c")>>)),
    JObj("html" :> JFalse),
    JObj("cssOptions" :> JFalse),
    JObj("cssOptions" :> Null),
    JObj("html" :> JObj("enabled" :> JFalse)),
    JObj("name" :> JObj("first" :> JStr("x"))),
    JObj("plugins" :> JObj("x" :> JNum("1"))),
    JObj("extra" :> JObj("deep" :> JObj("k" :> JNum("1")))),
    JObj("extra" :> JStr("x")),
    JObj("inputDir" :> Undef),
    JObj("cssOptions" :> JObj("level" :> JNum("1")) @@ "extra" :> JStr("x")
         @@ "plugins" :> JArr(<<JStr("c")>>)) }

UtilCalls ==
  {[NoCall EXCEPT !.fn = "deepMerge", !.target = t, !.source = s] :
     t \in MergeTargets, s \in MergeSources}
  \cup {[NoCall EXCEPT !.fn = f, !.originalSize = o, !.optimizedSize = n] :
          f \in {"calculateCompressionRatio", "generateReport"},
          o \in 0..MaxSize, n \in 0..MaxSize}


\* the pipeline is not run in the merge specification
OptimizerIdle ==
  /\ userOptions = Plain
  /\ options = Construct(userOptions)
  /\ files = NoFiles
  /\ dirs = InitialDirs(files, PathOf(options["inputDir"]))
  /\ stats = ZeroStats
  /\ descending = FALSE
  /\ phase = "idle" /\ step = "begin" /\ queue = <<>> /\ idx = 1 /\ stack = <<>>
  /\ adapter = [k \in {} |-> Fail]
  /\ runs = 0 /\ thrown = NoError /\ report = NoReport
  /\ HistInit

MergeInit ==
  /\ OptimizerIdle
  /\ vout = EmptyObj /\ finalOptions = EmptyObj
  /\ command = "optimize" /\ analysis = NoAnalysis /\ disk0 = NoDisk
  /\ uret = NoReturn
  /\ \/ /\ vin \in ValidateInputs /\ vpc = "call"
        /\ argv = NoFlags /\ configFile = NoConfigFile /\ cpc = "idle"
        /\ ucall = NoCall
     \/ /\ vin = EmptyObj /\ vpc = "idle"
        /\ configFile \in ConfigFiles
        /\ argv \in CommandLines(configFile)
        /\ cpc = "start"
        /\ ucall = NoCall
     \/ /\ vin = EmptyObj /\ vpc = "idle"
        /\ argv = NoFlags /\ configFile = NoConfigFile /\ cpc = "idle"
        /\ ucall \in UtilCalls

\* a call of validateOptions
Validate ==
  /\ vpc = "call"
  /\ vout' = validateOptions(vin)
  /\ vpc' = "returned"
  /\ UNCHANGED <<ucall, uret, vin, argv, configFile, finalOptions, cpc, command, analysis, disk0,
                 optVars, histVars>>

\* the action of the main command up to `const finalOptions = ...`; a
\* config file that does not parse throws into the catch: process.exit(1)
CliMerge ==
  /\ command = "optimize" /\ cpc = "start"
  /\ IF ConfigThrows(Commander(argv), configFile)
     THEN cpc' = "exit1" /\ UNCHANGED finalOptions
     ELSE cpc' = "merged" /\ finalOptions' = MergedCliOptions(argv, configFile)
  /\ UNCHANGED <<ucall, uret, vin, vout, vpc, argv, configFile, command, analysis, disk0,
                 optVars, histVars>>

\* the variant of a deepMerge call that assigns every source value as it is
DeepMerge_Assign ==
  /\ ucall.fn = "deepMerge" /\ ~uret.done
  /\ uret' = [uret EXCEPT !.done = TRUE,
                          !.merged = JObj([key \in DOMAIN Spread(ucall.target)
                                                   \cup DOMAIN ucall.source[2] |->
                                             IF key \in DOMAIN ucall.source[2]
                                             THEN ucall.source[2][key]
                                             ELSE Spread(ucall.target)[key]])]
  /\ UNCHANGED <<ucall, vin, vout, vpc, argv, configFile, finalOptions, cpc, command,
                 analysis, disk0, optVars, histVars>>

\* a call of deepMerge(target, source); the arguments are read, never assigned
DeepMerge ==
  /\ ucall.fn = "deepMerge" /\ ~uret.done
  /\ uret' = [uret EXCEPT !.done = TRUE, !.merged = deepMerge(ucall.target, ucall.source)]
  /\ UNCHANGED <<ucall, vin, vout, vpc, argv, configFile, finalOptions, cpc, command,
                 analysis, disk0, optVars, histVars>>

\* the variant of the call that computes the figures without the guards
CalculateCompressionRatio_Unguarded ==
  /\ ucall.fn = "calculateCompressionRatio" /\ ~uret.done
  /\ uret' = [uret EXCEPT !.done = TRUE,
                          !.ratio = calculateCompressionRatio_Unguarded(
                                      ucall.originalSize, ucall.optimizedSize)]
  /\ UNCHANGED <<ucall, vin, vout, vpc, argv, configFile, finalOptions, cpc, command,
                 analysis, disk0, optVars, histVars>>

\* a call of calculateCompressionRatio(originalSize, optimizedSize)
CalculateCompressionRatio ==
  /\ ucall.fn = "calculateCompressionRatio" /\ ~uret.done
  /\ uret' = [uret EXCEPT !.done = TRUE,
                          !.ratio = calculateCompressionRatio(
                                      ucall.originalSize, ucall.optimizedSize)]
  /\ UNCHANGED <<ucall, vin, vout, vpc, argv, configFile, finalOptions, cpc, command,
                 analysis, disk0, optVars, histVars>>

\* a call of generateReport(stats) with the sizes drawn
GenerateReport ==
  /\ ucall.fn = "generateReport" /\ ~uret.done
  /\ uret' = [uret EXCEPT !.done = TRUE,
                          !.text = generateReport([originalSize |-> ucall.originalSize,
                                                   optimizedSize |-> ucall.optimizedSize,
                                                   filesProcessed |-> 1])]
  /\ UNCHANGED <<ucall, vin, vout, vpc, argv, configFile, finalOptions, cpc, command,
                 analysis, disk0, optVars, histVars>>

MergeNext ==
  \/ Validate
  \/ CliMerge
  \/ DeepMerge
  \/ CalculateCompressionRatio
  \/ GenerateReport

MergeSpec == MergeInit /\ [][MergeNext]_vars

(***************************************************************************)
(* The CLI process of bin/cli.js: one command, from its command line to    *)
(* the exit of the process.                                                *)
(***************************************************************************)
\* the file --config names, and the default output of the init command
ConfigPath == <<F("optimizer.config", "json")>>
\* the text of a config file (its parsed value is configFile.json)
ConfigText == <<1, 0, 1>>

\* the input directory of the command line
CliInputDir(av) == PathOf(Commander(av)["input"])

\* the command lines drawn for a run of the main command
CliCommandLines(cf) ==
  {[NoFlags EXCEPT !.input = io[1], !.output = io[2], !.noCss = nc, !.backup = b,
                   !.dryRun = dr, !.config = (cf.state # "none")] :
     io \in {<<Absent, Absent>>, <<JStr("./src"), JStr("./out")>>},
     nc \in BOOLEAN, b \in BOOLEAN, dr \in BOOLEAN}

\* the site trees of the CLI runs
CliTrees == {SiteTree, PagesTree, ImagesTree}

\* the disk the process finds: the site below the input directory and the
\* config file, when there is one, in the working directory
CliDisk(tree, av, cf) ==
  LET site == InitialFiles(tree, CliInputDir(av), <<>>, FALSE)
  IN IF cf.state \in {"ok", "malformed"} THEN WriteFile(site, ConfigPath, ConfigText) ELSE site

CliProcessInit ==
  /\ vin = EmptyObj /\ vout = EmptyObj /\ vpc = "idle"
  /\ finalOptions = EmptyObj /\ cpc = "start" /\ analysis = NoAnalysis
  /\ ucall = NoCall /\ uret = NoReturn
  /\ command \in {"optimize", "init", "analyze"}
  /\ configFile \in IF command = "optimize" THEN ConfigFiles ELSE {NoConfigFile}
  /\ argv \in IF command = "optimize" THEN CliCommandLines(configFile)
              ELSE IF command = "analyze"
              THEN {[NoFlags EXCEPT !.input = i, !.verbose = v] :
                      i \in {Absent, JStr("./src")}, v \in BOOLEAN}
              ELSE {NoFlags}
  /\ \E tree \in CliTrees : files = CliDisk(tree, argv, configFile)
  /\ dirs = InitialDirs(files, CliInputDir(argv))
  /\ disk0 = [files |-> files, dirs |-> dirs]
  /\ userOptions = EmptyObj
  /\ options = Construct(userOptions)
  /\ stats = ZeroStats
  /\ descending \in BOOLEAN
  /\ phase = "idle" /\ step = "begin" /\ queue = <<>> /\ idx = 1 /\ stack = <<>>
  /\ adapter = [k \in {} |-> Fail]
  /\ runs = 0 /\ thrown = NoError /\ report = NoReport
  /\ HistInit

\* the main action after the merge, --dry-run given: the configuration is
\* printed and the action returns
CliDryRun ==
  /\ command = "optimize" /\ cpc = "merged"
  /\ Truthy(Commander(argv)["dryRun"])
  /\ cpc' = "exit0"
  /\ UNCHANGED <<ucall, uret, vin, vout, vpc, argv, configFile, finalOptions, command, analysis, disk0,
                 optVars, histVars>>

\* (mutant) the action does not look at --dry-run
CliRun_Always ==
  /\ command = "optimize" /\ cpc = "merged"
  /\ userOptions' = finalOptions
  /\ options' = Construct(finalOptions)
  /\ stats' = ZeroStats
  /\ cpc' = "running"
  /\ UNCHANGED <<ucall, uret, vin, vout, vpc, argv, configFile, finalOptions, command, analysis, disk0,
                 files, dirs, phase, step, queue, idx, stack, adapter, descending, runs,
                 thrown, report, histVars>>

\* the main action after the merge, no --dry-run: new StaticPageOptimizer(finalOptions)
CliRun ==
  /\ command = "optimize" /\ cpc = "merged"
  /\ ~Truthy(Commander(argv)["dryRun"])
  /\ userOptions' = finalOptions
  /\ options' = Construct(finalOptions)
  /\ stats' = ZeroStats
  /\ cpc' = "running"
  /\ UNCHANGED <<ucall, uret, vin, vout, vpc, argv, configFile, finalOptions, command, analysis, disk0,
                 files, dirs, phase, step, queue, idx, stack, adapter, descending, runs,
                 thrown, report, histVars>>

\* await optimizer.optimize(): the one call the action makes
CliOptimize ==
  /\ cpc = "running" /\ phase = "idle" /\ runs = 0
  /\ Optimize

\* (mutant) the catch of the action logs the error and lets the process end
CliExit_Zero ==
  /\ cpc = "running" /\ phase \in {"done", "rejected"}
  /\ cpc' = "exit0"
  /\ UNCHANGED <<ucall, uret, vin, vout, vpc, argv, configFile, finalOptions, command, analysis, disk0,
                 optVars, histVars>>

\* optimize() has settled: the action returns and the process ends with
\* code 0, or the catch of the action calls process.exit(1)
CliExit ==
  /\ cpc = "running" /\ phase \in {"done", "rejected"}
  /\ cpc' = IF phase = "done" THEN "exit0" ELSE "exit1"
  /\ UNCHANGED <<ucall, uret, vin, vout, vpc, argv, configFile, finalOptions, command, analysis, disk0,
                 optVars, histVars>>

\* the init command: the default configuration is written to --output
InitCommand ==
  /\ command = "init" /\ cpc = "start"
  /\ \E ioOk \in BOOLEAN :
       IF ioOk /\ CanWrite(dirs, ConfigPath)
       THEN files' = WriteFile(files, ConfigPath, ConfigText) /\ cpc' = "exit0"
       ELSE files' = files /\ cpc' = "exit1"
  /\ UNCHANGED <<ucall, uret, vin, vout, vpc, argv, configFile, finalOptions, command, analysis, disk0,
                 userOptions, options, stats, dirs, phase, step, queue, idx, stack, adapter,
                 descending, runs, thrown, report, histVars>>

RECURSIVE SumSizes(_, _, _)
\* the running total of a forEach of the analyze action over the files of a glob
SumSizes(fs, dir, listed) ==
  IF listed = <<>> THEN 0
  ELSE getFileSize(fs, Join(dir, Head(listed))) + SumSizes(fs, dir, Tail(listed))

\* (mutant) the size is taken of the path relative to the input directory
AnalyzeCategory_Relative(fs, ds, dir, cat, desc) ==
  LET listed == Glob(fs, ds, dir, cat, desc)
  IN [count |-> Len(listed), size |-> SumSizes(fs, <<>>, listed)]

\* the count and the size the analyze action reports for a category
AnalyzeCategory(fs, ds, dir, cat, desc) ==
  LET listed == Glob(fs, ds, dir, cat, desc)
  IN [count |-> Len(listed), size |-> SumSizes(fs, dir, listed)]

\* the analyze command
Analyze ==
  /\ command = "analyze" /\ cpc = "start"
  /\ analysis' =
       [shown |-> TRUE,
        count |-> [c \in Categories |->
                     AnalyzeCategory(files, dirs, CliInputDir(argv), c, descending).count],
        size |-> [c \in Categories |->
                    AnalyzeCategory(files, dirs, CliInputDir(argv), c, descending).size]]
  /\ cpc' = "exit0"
  /\ UNCHANGED <<ucall, uret, vin, vout, vpc, argv, configFile, finalOptions, command, disk0,
                 optVars, histVars>>

CliNext ==
  \/ CliMerge
  \/ CliDryRun
  \/ CliRun
  \/ CliOptimize
  \/ CreateBackup
  \/ CopyEntry
  \/ CopyReturn
  \/ Enumerate
  \/ ProcessFile
  \/ FinishCategory
  \/ ShowResults
  \/ CliExit
  \/ InitCommand
  \/ Analyze

CliSpec == CliProcessInit /\ [][CliNext]_vars

(***************************************************************************)
(* Properties.                                                             *)
(***************************************************************************)
RECURSIVE SumOrig(_)
SumOrig(S) == IF S = {} THEN 0 ELSE LET a == CHOOSE x \in S : TRUE IN a.orig + SumOrig(S \ {a})
RECURSIVE SumOpt(_)
SumOpt(S) == IF S = {} THEN 0 ELSE LET a == CHOOSE x \in S : TRUE IN a.opt + SumOpt(S \ {a})

\* C1: whenever a category loop has processed a file with relative path r,
\* the content the compressor returned is at join(outputDir, r) and every
\* directory on the way to it exists.
C1_MirroredOutput ==
  [][\A a \in acct' \ acct :
       LET out == Join(OutputDir, a.file)
       IN /\ out \in DOMAIN files'
          /\ files'[out] = a.data
          /\ \A d \in Ancestors(Dirname(out)) : d \in dirs']_vars

\* a file two levels below inputDir has been processed into a fresh output tree
C1_Witness ==
  \E a \in acct : /\ Len(a.file) > 1
                  /\ Join(OutputDir, a.file) \in DOMAIN files
                  /\ files[Join(OutputDir, a.file)] = a.data

\* C2 as stated: when file N of the M files of a category fails compression,
\* the outputs of files 1..N-1 exist and the outputs of files N+1..M do not.
C2_AsStated ==
  (failure.phase \in Categories /\ failure.kind = "compress") =>
    /\ \A i \in 1..(failure.pos - 1) : Join(OutputDir, queue[i]) \in DOMAIN files
    /\ \A i \in (failure.pos + 1)..Len(queue) : Join(OutputDir, queue[i]) \notin DOMAIN files

\* C2 amended: when file N of the M files of a category fails compression,
\* the outputs of files 1..N-1 exist and files N+1..M are not processed in
\* that run (nothing is written for them; what was at their output path
\* already stays).
C2_FailFast ==
  (failure.phase \in Categories /\ failure.kind = "compress") =>
    /\ \A i \in 1..(failure.pos - 1) :
         /\ Join(OutputDir, queue[i]) \in DOMAIN files
         /\ <<failure.phase, queue[i]>> \in written
    /\ \A i \in (failure.pos + 1)..Len(queue) :
         /\ <<failure.phase, queue[i]>> \notin attempted
         /\ <<failure.phase, queue[i]>> \notin written

\* the second of three files failed compression
C2_Witness ==
  /\ failure.kind = "compress" /\ failure.pos = 2 /\ Len(queue) = 3
  /\ <<failure.phase, queue[1]>> \in written
  /\ <<failure.phase, queue[3]>> \notin attempted

\* C3: after the failure of a file (mkdir, compression or write) optimize()
\* has rejected with that error, no later file of the category was begun, no
\* later category was entered, no report was shown, and the outputs written
\* before are still there.
C3_FailureAborts ==
  failure.phase \in Categories =>
    /\ phase = "rejected"
    /\ thrown = [kind |-> failure.kind, file |-> failure.file]
    /\ ~report.shown
    /\ failure.file = queue[failure.pos]
    /\ \A i \in (failure.pos + 1)..Len(queue) : <<failure.phase, queue[i]>> \notin attempted
    /\ \A ph \in started : PhaseIndex(ph) <= PhaseIndex(failure.phase)
    /\ \A a \in acct : Join(OutputDir, a.file) \in DOMAIN files

\* a write failed in the CSS loop after the HTML loop had written its files
C3_Witness ==
  /\ failure.phase = "css" /\ failure.kind = "write"
  /\ \E w \in written : w[1] = "html"
  /\ phase = "rejected"

\* C4 as stated: when optimize() has completed, filesProcessed is the number
\* of files the globs of this call returned, originalSize the sum of their
\* input sizes and optimizedSize the sum of their output sizes.
C4_AsStated ==
  phase = "done" =>
    /\ stats.filesProcessed = Cardinality(enumerated)
    /\ Cardinality(acct) = Cardinality(enumerated)
    /\ stats.originalSize = SumOrig(acct)
    /\ stats.optimizedSize = SumOpt(acct)

\* C5 as stated: the report has savedBytes = originalSize - optimizedSize,
\* the percentage 100 * savedBytes / originalSize to two decimals, and the
\* percentage 0 when originalSize is 0.
C5_AsStated ==
  report.shown =>
    /\ report.savedBytes = report.originalSize - report.optimizedSize
    /\ report.savedPercentage.text = "number"
    /\ IF report.originalSize = 0
       THEN report.savedPercentage.hundredths = 0
       ELSE 2 * Abs(10000 * report.savedBytes
                    - report.savedPercentage.hundredths * report.originalSize)
              <= report.originalSize

\* C6: when the categories of a call are through and the input tree was, at
\* the start of this call, what it was at the start of the last completed
\* call, the output tree is what it was at the end of that call.
C6_Idempotent ==
  (phase = "report" /\ prev.valid /\ prev.input = atStart.input) =>
    TreeBelow(files, OutputDir) = prev.output

\* a second call on an unchanged input tree has rewritten its outputs
C6_Witness ==
  /\ phase = "report" /\ prev.valid /\ prev.input = atStart.input
  /\ Cardinality(written) >= 2
  /\ prev.output # NoFiles

\* C7: when the backup is through and the first category is about to start,
\* every file below inputDir is, with the same content, at the same
\* relative path below outputDir/backup.
C7_BackupComplete ==
  (phase \in Categories /\ step = "begin" /\ started = {"backup"}) =>
    \A p \in DOMAIN files :
      IsPrefix(InputDir, p) =>
        /\ Join(BackupDir, Rel(InputDir, p)) \in DOMAIN files
        /\ files[Join(BackupDir, Rel(InputDir, p))] = files[p]

\* the backup of a tree with a file in a sub-directory is through
C7_Witness ==
  /\ phase \in Categories /\ step = "begin" /\ started = {"backup"}
  /\ \E p \in DOMAIN files : IsPrefix(InputDir, p) /\ Len(Rel(InputDir, p)) > 1

\* C8 as stated: when the backup copy failed, optimize() has rejected, no
\* glob was run, no file was processed or written, and the stats are zero.
C8_AsStated ==
  failure.phase = "backup" =>
    /\ phase = "rejected"
    /\ enumerated = {} /\ attempted = {} /\ written = {}
    /\ stats = ZeroStats

\* C9 as stated: a key supplied with a value has that value in the result
\* of validateOptions, and a default the caller gave no value for (the key
\* is missing or undefined) has its documented value.
C9_AsStated ==
  vpc = "returned" =>
    /\ \A k \in DOMAIN vin : vin[k] # Undef => vout[k] = vin[k]
    /\ \A k \in DOMAIN Defaults : Get(vin, k) = Undef => vout[k] = Defaults[k]

\* the flag of an option is on the command line
FlagGiven(av, k) ==
  CASE k = "inputDir" -> av.input # Absent
    [] k = "outputDir" -> av.output # Absent
    [] k = "html" -> av.noHtml
    [] k = "css" -> av.noCss
    [] k = "js" -> av.noJs
    [] k = "images" -> av.noImages
    [] k = "backup" -> av.backup
    [] OTHER -> av.verbose

\* C10 as stated: for each of the eight options, the flag's value is
\* effective when the flag is given, and otherwise the value of the config
\* file when it sets one.
C10_AsStated ==
  cpc = "merged" =>
    \A k \in CliKeys :
      IF FlagGiven(argv, k)
      THEN finalOptions[k] = Commander(argv)[CliOptionOf(k)]
      ELSE (configFile.state = "ok" /\ k \in DOMAIN configFile.json) =>
             finalOptions[k] = configFile.json[k]

\* the action of the command has failed: an exception reached its catch
ActionFailed ==
  CASE command = "optimize" -> ConfigThrows(Commander(argv), configFile) \/ phase = "rejected"
    [] command = "init" -> ConfigPath \notin DOMAIN files
    [] OTHER -> FALSE

\* C11 as stated: when --config names a missing or malformed file, the CLI
\* goes from its start to exit code 1 and nothing else: no optimizer runs
\* and the disk stays as it was.
C11_AsStated ==
  (command = "optimize" /\ argv.config /\ configFile.state \in {"missing", "malformed"}) =>
    /\ cpc \in {"start", "exit1"}
    /\ runs = 0 /\ phase = "idle"
    /\ files = disk0.files /\ dirs = disk0.dirs

\* C12: a process that has ended has exit code 1 exactly when the action of
\* its command failed (the config file did not parse, optimize() rejected,
\* the init file could not be written) and code 0 when it completed; after a
\* rejected optimize() the exit code is never 0.
C12_ExitCodes ==
  /\ cpc \in {"exit0", "exit1"} => (cpc = "exit1" <=> ActionFailed)
  /\ (cpc = "exit0" /\ command = "optimize" /\ ~argv.dryRun) => (phase = "done" /\ report.shown)
  /\ phase = "rejected" => cpc \in {"running", "exit1"}

\* a compressor failure in the pipeline has ended the process with code 1
C12_Witness ==
  /\ cpc = "exit1" /\ command = "optimize"
  /\ failure.kind = "compress" /\ phase = "rejected"

\* C13: with --dry-run the main command constructs and runs no optimizer
\* and leaves the disk as it was, whatever the other flags and the config
\* file; when it returns, the configuration it printed is the merged one.
C13_DryRun ==
  (command = "optimize" /\ argv.dryRun) =>
    /\ files = disk0.files /\ dirs = disk0.dirs
    /\ cpc # "running" /\ userOptions = EmptyObj
    /\ runs = 0 /\ phase = "idle" /\ started = {}
    /\ cpc = "exit0" => finalOptions = MergedCliOptions(argv, configFile)

\* a dry run with --backup and a config file has returned
C13_Witness ==
  /\ command = "optimize" /\ argv.dryRun /\ argv.backup /\ configFile.state = "ok"
  /\ cpc = "exit0"

\* the files of a category below a directory of the disk
CategoryFiles(fs, dir, cat) ==
  {p \in DOMAIN fs : Len(p) > Len(dir) /\ IsPrefix(dir, p) /\ Extname(p) \in Patterns(cat)}

RECURSIVE TotalSize(_, _)
TotalSize(fs, S) ==
  IF S = {} THEN 0
  ELSE LET p == CHOOSE x \in S : TRUE IN Len(fs[p]) + TotalSize(fs, S \ {p})

\* C14: the analyze command reports for each category the number of its
\* files below the input directory and the sum of their sizes, calls no
\* compressor, runs no optimizer and leaves the disk as it was.
C14_AnalyzeReadOnly ==
  analysis.shown =>
    /\ \A c \in Categories :
         /\ analysis.count[c] = Cardinality(CategoryFiles(disk0.files, CliInputDir(argv), c))
         /\ analysis.size[c] = TotalSize(disk0.files, CategoryFiles(disk0.files, CliInputDir(argv), c))
    /\ files = disk0.files /\ dirs = disk0.dirs
    /\ DOMAIN adapter = {} /\ runs = 0 /\ phase = "idle"
    /\ cpc = "exit0"

\* three HTML files of five bytes in all, below ./src, have been analyzed
C14_Witness ==
  /\ analysis.shown /\ CliInputDir(argv) # <<>>
  /\ analysis.count["html"] = 3 /\ analysis.size["html"] = 5

\* C15: the phases run one after another in the order backup, HTML, CSS,
\* JS, images: when a file of a category is begun, every enabled earlier
\* phase has been entered, the backup copy has returned and every file the
\* earlier categories enumerated is written; inside a category the files
\* begun are an initial part of the enumeration, each written before the
\* next is begun, so that at most one file is begun and not written.
C15_Sequential ==
  /\ \A a \in attempted :
       /\ \A i \in 1..(PhaseIndex(a[1]) - 1) : Enabled(PhaseOrder[i]) => PhaseOrder[i] \in started
       /\ \A e \in enumerated : PhaseIndex(e[1]) < PhaseIndex(a[1]) => e \in written
       /\ stack = <<>>
  /\ \A ph \in started : phase \in Categories => PhaseIndex(ph) <= PhaseIndex(phase)
  /\ (phase \in Categories /\ step = "loop") =>
       \A i \in 1..Len(queue) :
         /\ <<phase, queue[i]>> \in attempted => \A j \in 1..(i - 1) : <<phase, queue[j]>> \in written
         /\ <<phase, queue[i]>> \in written => i < idx
  /\ Cardinality(attempted \ written) <= 1

\* after the backup and the HTML loop, the CSS loop has written a file
C15_Witness ==
  /\ "backup" \in started /\ phase = "css"
  /\ \E w \in written : w[1] = "html"
  /\ \E w \in written : w[1] = "css"

\* C16: an image whose derived WebP could not be produced has its primary
\* output written, a warning logged, and is counted in the stats like every
\* processed file; the run goes on, and an image fails the run only by its
\* output directory, its primary compression or its primary write.
C16_DerivedFailureLocal ==
  /\ \A a \in acct :
       a.warned =>
         /\ a.cat = "images" /\ Truthy(Get(options, "generateWebP")) /\ Extname(a.file) # "webp"
         /\ Join(OutputDir, a.file) \in DOMAIN files
         /\ <<"images", a.file>> \in written
         /\ failure.file # a.file
  /\ \A w \in written :
       (/\ w[1] = "images" /\ Truthy(Get(options, "generateWebP")) /\ Extname(w[2]) # "webp"
        /\ <<"webp", files[Join(InputDir, w[2])]>> \in DOMAIN adapter
        /\ ~adapter[<<"webp", files[Join(InputDir, w[2])]>>].ok)
       => \E a \in acct : a.file = w[2] /\ a.warned
  /\ stats.filesProcessed - atStart.stats.filesProcessed = Cardinality(acct)
  /\ failure.phase = "images" => failure.kind \in {"mkdir", "compress", "write"}

\* a run in which the WebP of an image failed has completed with all three images counted
C16_Witness ==
  /\ phase = "done" /\ report.shown
  /\ \E a \in acct : a.warned
  /\ Cardinality(acct) = 3

\* C17 as stated: the compressor of every processed file was called with
\* the settings the options give under the key of its category (html, css,
\* js, images), merged over the defaults of the compressor.
C17_AsStated ==
  \A a \in acct :
    a.settings = ShallowMerge(CompressorDefaults(a.cat), Spread(Get(options, a.cat)))

\* the documented switch of a category: a boolean is the switch, an object
\* is on exactly when its `enabled` field is true
DocumentedOn(v) == IF v[1] = "object" THEN Get(v[2], "enabled") = JTrue ELSE v = JTrue

\* C18 as stated: a category that is off in the effective options is never
\* entered, and enumerates, processes and counts nothing; when the
\* categories of a run are through, exactly the categories that are on have
\* been entered.
C18_AsStated ==
  \A c \in Categories :
    /\ ~DocumentedOn(Get(options, c)) =>
         /\ c \notin started /\ phase # c
         /\ \A e \in enumerated \cup attempted \cup written : e[1] # c
         /\ \A a \in acct : a.cat # c
    /\ (phase \in {"report", "done"} /\ DocumentedOn(Get(options, c))) => c \in started

\* C19 as stated: when the options the optimizer is constructed with give
\* no backup value, no backup phase is entered and outputDir/backup is not
\* created.
C19_AsStated ==
  Get(userOptions, "backup") = Undef =>
    /\ "backup" \notin started /\ phase # "backup" /\ stack = <<>>
    /\ BackupDir \notin dirs
    /\ \A p \in DOMAIN files : ~IsPrefix(BackupDir, p)

\* C20 as stated: every optimize() call starts with the stats at zero, and
\* the totals its report shows are those of the files processed in it.
C20_AsStated ==
  /\ runs > 0 => atStart.stats = ZeroStats
  /\ report.shown =>
       /\ report.filesProcessed = Cardinality(acct)
       /\ report.originalSize = SumOrig(acct)
       /\ report.optimizedSize = SumOpt(acct)

\* C21 as stated: at every moment of a run filesProcessed is the number of
\* files whose output this run has written so far, a failed file adds
\* nothing, and none of the three totals decreases while the optimizer runs.
C21_AsStated ==
  /\ [](stats.filesProcessed = Cardinality(written))
  /\ [][phase' # "idle" =>
          /\ stats'.filesProcessed >= stats.filesProcessed
          /\ stats'.originalSize >= stats.originalSize
          /\ stats'.optimizedSize >= stats.optimizedSize
          /\ (failure' # failure /\ failure' # NoFailure) => stats' = stats]_vars

\* modification times when optimize() was called: what an earlier run left
\* in the output tree is newer than the input files
AtStartModTime == [p \in DOMAIN atStart.files |-> IF p \in DOMAIN atStart.input THEN 1 ELSE 2]

\* the staleness helpers would have skipped the file when optimize() was called
FreshAtStart(file) ==
  /\ ~needsOptimization(atStart.files, dirs, Join(InputDir, file), OutputPath(file))
  /\ ~needsUpdate(atStart.files, dirs, AtStartModTime, Join(InputDir, file), OutputPath(file))

\* C22: when the categories of a run are through, every enumerated file has
\* been compressed and its output written in this run, also the files whose
\* output existed before and which needsUpdate and needsOptimization call
\* up to date.
C22_AlwaysRewritten ==
  phase \in {"report", "done"} =>
    \A e \in enumerated :
      /\ e \in attempted /\ e \in written
      /\ \E a \in acct : a.cat = e[1] /\ a.file = e[2]
      /\ OutputPath(e[2]) \in DOMAIN files

\* a file whose output was there, newer and smaller than the input, has been rewritten
C22_Witness ==
  /\ phase = "report"
  /\ \E e \in written :
       /\ OutputPath(e[2]) \in DOMAIN atStart.files
       /\ FreshAtStart(e[2])

(***************************************************************************)
(* C23: deepMerge.                                                         *)
(***************************************************************************)
RECURSIVE MergedAs(_, _, _)
\* r is what merging the plain object s into the value t must give: an
\* object with the properties of t and the keys of s, where a key of s that
\* holds a plain object is merged into what t holds there (into {} when that
\* is absent or falsy), any other key of s holds the value of s, and the
\* remaining properties are those of t
MergedAs(t, s, r) ==
  /\ r[1] = "object"
  /\ DOMAIN r[2] = DOMAIN Spread(t) \cup DOMAIN s[2]
  /\ \A k \in DOMAIN r[2] :
       IF k \notin DOMAIN s[2] THEN r[2][k] = Spread(t)[k]
       ELSE IF s[2][k][1] = "object"
       THEN MergedAs(IF k \in DOMAIN Spread(t) /\ Truthy(Spread(t)[k])
                     THEN Spread(t)[k] ELSE JObj(EmptyObj),
                     s[2][k], r[2][k])
       ELSE r[2][k] = s[2][k]

\* C23: the object deepMerge(target, source) returns merges recursively
\* exactly where the source value is a plain object; an array, a primitive,
\* null or undefined in the source replaces the target value as a whole; a
\* key only the source has comes out with the source's value, a key only the
\* target has with the target's; and the call leaves both arguments as they
\* were.
C23_DeepMerge ==
  /\ [](ucall.fn = "deepMerge" /\ uret.done =>
          LET t == ucall.target[2]
              s == ucall.source[2]
              r == uret.merged[2]
          IN /\ MergedAs(ucall.target, ucall.source, uret.merged)
             /\ \A k \in DOMAIN s : s[k][1] # "object" => r[k] = s[k]
             /\ \A k \in DOMAIN s \ DOMAIN t : r[k] = s[k]
             /\ \A k \in DOMAIN t \ DOMAIN s : r[k] = t[k])
  /\ [][ucall.fn = "deepMerge" => ucall' = ucall]_vars

\* a call that merged a nested settings object into the target's, giving an
\* object that is neither of the two, beside a replaced array
C23_Witness ==
  /\ ucall.fn = "deepMerge" /\ uret.done
  /\ LET t == ucall.target[2]
         s == ucall.source[2]
         r == uret.merged[2]
     IN /\ \E k \in DOMAIN s \cap DOMAIN t :
             /\ s[k][1] = "object" /\ t[k][1] = "object"
             /\ r[k] # s[k] /\ r[k] # t[k]
        /\ \E k \in DOMAIN s \cap DOMAIN t : s[k][1] = "array" /\ r[k] = s[k]
        /\ \E k \in DOMAIN s \ DOMAIN t : r[k] = s[k]

(***************************************************************************)
(* C24: calculateCompressionRatio and generateReport.                      *)
(***************************************************************************)
\* pct and ratio are the figures wanted for the sizes o and n: pct is the
\* number nearest to 100 * (o - n) / o with two decimals when o > 0; pct is
\* the number 0 and ratio the number 1 when o = 0
SavingsAsStated(o, n, pct, ratio) ==
  /\ pct.text = "number"
  /\ o > 0 => 2 * Abs(pct.hundredths * o - 10000 * (o - n)) <= o
  /\ o = 0 => pct.hundredths = 0 /\ ratio = [type |-> "number", tenThousandths |-> 10000]

\* C24: for all non-negative sizes calculateCompressionRatio returns
\* savedBytes = originalSize - optimizedSize, savedPercentage =
\* 100 * savedBytes / originalSize rounded to two decimals when
\* originalSize > 0, and savedPercentage 0 with compressionRatio 1 when
\* originalSize = 0; generateReport prints these figures.
C24_Savings ==
  /\ ucall.fn = "calculateCompressionRatio" /\ uret.done =>
       /\ uret.ratio.savedBytes = ucall.originalSize - ucall.optimizedSize
       /\ SavingsAsStated(ucall.originalSize, ucall.optimizedSize,
                          uret.ratio.savedPercentage, uret.ratio.compressionRatio)
  /\ ucall.fn = "generateReport" /\ uret.done =>
       SavingsAsStated(ucall.originalSize, ucall.optimizedSize,
                       uret.text.savedPercentage, uret.text.compressionRatio)

\* a call with originalSize 0 and a positive optimizedSize has returned
C24_Witness ==
  /\ ucall.fn = "calculateCompressionRatio" /\ uret.done
  /\ ucall.originalSize = 0 /\ ucall.optimizedSize > 0
  /\ uret.ratio.savedBytes < 0

(***************************************************************************)
(* C25: the backup copy and the directory it creates.                      *)
(***************************************************************************)
\* C25 as stated: the backup copy terminates for every choice of
\* directories: no copyDirectory activation reads a directory at or below
\* outputDir/backup, and createBackup does not end in a failed mkdir.
C25_AsStated ==
  /\ \A i \in DOMAIN stack : ~IsPrefix(BackupDir, stack[i].src)
  /\ ~(phase = "rejected" /\ failure.phase = "backup" /\ failure.kind = "mkdir")

(***************************************************************************)
(* C26: the backup after the categories have run.                          *)
(***************************************************************************)
\* C26 as stated: at the end of a successful run with backup enabled, the
\* copy under outputDir/backup of every input file still has the bytes the
\* input file had when the run started.
C26_AsStated ==
  (phase \in {"report", "done"} /\ "backup" \in started) =>
    \A p \in DOMAIN atStart.input :
      LET copy == Join(BackupDir, Rel(InputDir, p))
      IN copy \in DOMAIN files /\ files[copy] = atStart.input[p]

(***************************************************************************)
(* C27: what one run takes as its inputs.                                  *)
(***************************************************************************)
\* C27 as stated: every file a glob of the run returns existed under
\* inputDir when optimize() was called; no file the run has written as an
\* optimized output is among the files it enumerates as inputs; and at the
\* end of a successful run every start-time input file that matches the
\* pattern of an enabled category has been written and counted exactly once.
C27_AsStated ==
  /\ \A e \in enumerated : Join(InputDir, e[2]) \in DOMAIN atStart.input
  /\ \A e \in enumerated : \A a \in acct : Join(InputDir, e[2]) # OutputPath(a.file)
  /\ phase \in {"report", "done"} =>
       /\ \A p \in DOMAIN atStart.input : \A c \in Categories :
            (Enabled(c) /\ Extname(p) \in Patterns(c)) =>
               /\ <<c, Rel(InputDir, p)>> \in written
               /\ Cardinality({a \in acct : a.cat = c /\ a.file = Rel(InputDir, p)}) = 1
       /\ stats.filesProcessed - atStart.stats.filesProcessed =
            Cardinality({p \in DOMAIN atStart.input :
                           \E c \in Categories : Enabled(c) /\ Extname(p) \in Patterns(c)})

(***************************************************************************)
(* C28: the destinations of the writes of one run.                         *)
(***************************************************************************)
\* the file of the account a got a derived WebP output written beside it
DerivedWebP(a) ==
  /\ a.cat = "images" /\ Truthy(Get(options, "generateWebP"))
  /\ Extname(a.file) # "webp" /\ ~a.warned

\* the paths written for the file of the account a
WritesOf(a) ==
  {OutputPath(a.file)} \cup
  (IF DerivedWebP(a) THEN {WebpPath(OutputPath(a.file))} ELSE {})

\* C28 as stated: in one run the paths written for two different files,
\* derived WebP outputs included, are disjoint, and at the end of the run
\* every output path still holds what was written for its file.
C28_AsStated ==
  /\ \A a \in acct : \A b \in acct :
       (a.cat # b.cat \/ a.file # b.file) => WritesOf(a) \cap WritesOf(b) = {}
  /\ phase \in {"report", "done"} =>
       \A a \in acct : files[OutputPath(a.file)] = a.data

(***************************************************************************)
(* C29: the input tree during a run.                                       *)
(***************************************************************************)
\* C29 as stated: optimize() leaves the input tree unchanged: every file
\* that was under inputDir when the call started is still there with the
\* same bytes, and no optimized output of the run is written to the path of
\* such a file.
C29_AsStated ==
  phase # "idle" =>
    /\ \A p \in DOMAIN atStart.input : p \in DOMAIN files /\ files[p] = atStart.input[p]
    /\ \A a \in acct : OutputPath(a.file) \notin DOMAIN atStart.input

(***************************************************************************)
(* C30: the globs of the pipeline and the classifier of lib/utils.js.      *)
(***************************************************************************)
\* String.prototype.toLowerCase on the extensions
ToLowerCase(ext) ==
  CASE ext = "HTML" -> "html"
    [] ext = "HTM" -> "htm"
    [] ext = "JPG" -> "jpg"
    [] OTHER -> ext

\* getFileExtension(filePath), without the dot
getFileExtension(p) == ToLowerCase(Extname(p))

isImageFile(p) == getFileExtension(p) \in {"jpg", "jpeg", "png", "gif", "svg", "webp"}
isCSSFile(p) == getFileExtension(p) = "css"
isJSFile(p) == getFileExtension(p) \in {"js", "mjs", "cjs"}
isHTMLFile(p) == getFileExtension(p) \in {"html", "htm"}

\* the classifier's answer for a category of the pipeline
Classified(cat, p) ==
  CASE cat = "html" -> isHTMLFile(p)
    [] cat = "css" -> isCSSFile(p)
    [] cat = "js" -> isJSFile(p)
    [] cat = "images" -> isImageFile(p)

\* C30 as stated: a file is enumerated for a category only when the
\* classifier says it belongs to it; at the end of a successful run every
\* start-time input file the classifier puts into an enabled category has
\* been enumerated for it; and the classifier puts no path into two
\* categories.
C30_AsStated ==
  /\ \A e \in enumerated : Classified(e[1], e[2])
  /\ phase \in {"report", "done"} =>
       \A p \in DOMAIN atStart.input : \A c \in Categories :
         (Enabled(c) /\ Classified(c, p)) => <<c, Rel(InputDir, p)>> \in enumerated
  /\ \A p \in DOMAIN files : Cardinality({c \in Categories : Classified(c, p)}) <= 1

====
